---- MODULE Spec2Model ----
(***************************************************************************)
(* Model of the rebalancer program (programs/rebalancer): the allocator    *)
(* calculate_optimal_allocation with validate_allocations, the ranker      *)
(* calculate_percentile_rankings and calculate_dynamic_threshold.          *)
(*                                                                         *)
(* u64 and u128 quantities are unbounded naturals held as little-endian    *)
(* sequences of 16-bit limbs without leading zero limbs (zero is <<>>), so *)
(* that the 64-bit width of the program's integers is kept exactly.  The   *)
(* small operands of the program (basis points, scores, multipliers) are   *)
(* ordinary integers below 2^15.                                           *)
(***************************************************************************)
EXTENDS Integers, Sequences, FiniteSets, TLC

\* ------------------------------------------------------------------------
\* Wide naturals
\* ------------------------------------------------------------------------
Limb == 2^16

Min(a, b) == IF a < b THEN a ELSE b
Max(a, b) == IF a > b THEN a ELSE b

RECURSIVE Trim(_)
Trim(x) ==
  IF x = <<>> THEN x
  ELSE IF x[Len(x)] = 0 THEN Trim(SubSeq(x, 1, Len(x) - 1)) ELSE x

RECURSIVE Wide(_)
Wide(n) == IF n = 0 THEN <<>> ELSE <<n % Limb>> \o Wide(n \div Limb)

RECURSIVE Narrow(_)
Narrow(x) == IF x = <<>> THEN 0 ELSE Head(x) + Limb * Narrow(Tail(x))

RECURSIVE AddC(_, _, _)
AddC(x, y, c) ==
  IF x = <<>> /\ y = <<>> THEN (IF c = 0 THEN <<>> ELSE <<c>>)
  ELSE LET a == IF x = <<>> THEN 0 ELSE Head(x)
           b == IF y = <<>> THEN 0 ELSE Head(y)
           s == a + b + c
       IN  <<s % Limb>> \o AddC(IF x = <<>> THEN x ELSE Tail(x),
                                IF y = <<>> THEN y ELSE Tail(y), s \div Limb)

Add(x, y) == AddC(x, y, 0)

RECURSIVE LtFrom(_, _, _)
LtFrom(x, y, i) ==
  IF i = 0 THEN FALSE
  ELSE IF x[i] # y[i] THEN x[i] < y[i] ELSE LtFrom(x, y, i - 1)

Lt(x, y) == IF Len(x) # Len(y) THEN Len(x) < Len(y) ELSE LtFrom(x, y, Len(x))
Le(x, y) == ~Lt(y, x)

\* x - y for y <= x
RECURSIVE SubB(_, _, _)
SubB(x, y, b) ==
  IF x = <<>> THEN <<>>
  ELSE LET s == Head(x) - (IF y = <<>> THEN 0 ELSE Head(y)) - b
       IN  <<(s + Limb) % Limb>> \o
           SubB(Tail(x), IF y = <<>> THEN y ELSE Tail(y), IF s < 0 THEN 1 ELSE 0)

Sub(x, y) == Trim(SubB(x, y, 0))

\* x * m for an integer 0 <= m < 2^15
RECURSIVE MulC(_, _, _)
MulC(x, m, c) ==
  IF x = <<>> THEN (IF c = 0 THEN <<>> ELSE <<c>>)
  ELSE LET p == Head(x) * m + c
       IN  <<p % Limb>> \o MulC(Tail(x), m, p \div Limb)

Mul(x, m) == Trim(MulC(x, m, 0))

\* floor(x / d) for an integer 0 < d < 2^15
RECURSIVE DivRem(_, _)
DivRem(x, d) ==
  IF x = <<>> THEN [q |-> <<>>, r |-> 0]
  ELSE LET hi  == DivRem(Tail(x), d)
           cur == hi.r * Limb + Head(x)
       IN  [q |-> <<cur \div d>> \o hi.q, r |-> cur % d]

Div(x, d) == Trim(DivRem(x, d).q)

Zero == <<>>

\* x * m for an integer 0 <= m < 2^16
Mul16(x, m) ==
  IF m < 2^15 THEN Mul(x, m)
  ELSE Add(Mul(Mul(x, m \div 2), 2), Mul(x, m % 2))

\* x * y
RECURSIVE MulWide(_, _)
MulWide(x, y) ==
  IF x = <<>> \/ y = <<>> THEN <<>>
  ELSE LET rest == MulWide(x, Tail(y))
       IN  Add(Mul16(x, Head(y)), IF rest = <<>> THEN rest ELSE <<0>> \o rest)

\* the largest digit q in lo..hi with d * q <= x
RECURSIVE Digit(_, _, _, _)
Digit(x, d, lo, hi) ==
  IF lo = hi THEN lo
  ELSE LET mid == (lo + hi + 1) \div 2
       IN  IF Le(Mul16(d, mid), x) THEN Digit(x, d, mid, hi)
           ELSE Digit(x, d, lo, mid - 1)

\* long division of x by d # 0, limb by limb from the top
RECURSIVE DivRemWide(_, _)
DivRemWide(x, d) ==
  IF x = <<>> THEN [q |-> <<>>, r |-> <<>>]
  ELSE LET hi  == DivRemWide(Tail(x), d)
           cur == Trim(<<Head(x)>> \o hi.r)
           q   == Digit(cur, d, 0, Limb - 1)
       IN  [q |-> <<q>> \o hi.q, r |-> Sub(cur, Mul16(d, q))]

\* floor(x / d) for d # 0
DivWide(x, d) ==
  IF Len(d) = 1 /\ d[1] < 2^15 THEN Div(x, d[1])
  ELSE Trim(DivRemWide(x, d).q)

\* ------------------------------------------------------------------------
\* u64
\* ------------------------------------------------------------------------
U64Limbs == 64 \div 16

U64_MAX == [i \in 1..U64Limbs |-> Limb - 1]

\* `as u64` of a wider value, and the result of a wrapping 64-bit operation
as_u64(x) == Trim(SubSeq(x, 1, Min(Len(x), U64Limbs)))

fits_u64(x) == Len(x) <= U64Limbs

saturating_sub(x, y) == IF Lt(x, y) THEN Zero ELSE Sub(x, y)

\* `as u32` of an integer held in a wider type
as_u32(n) == LET w == Wide(n) IN Narrow(Trim(SubSeq(w, 1, Min(Len(w), 32 \div 16))))

\* Outcome of a 64-bit `*` or `+`: the mathematical result, and whether it
\* leaves the 64-bit range.  An overflowing operation panics in a build with
\* overflow checks and wraps in a build without them.
overflows(x) == ~fits_u64(x)

checked_add(x, y) ==
  LET s == Add(x, y) IN IF fits_u64(s) THEN [some |-> TRUE, v |-> s]
                        ELSE [some |-> FALSE, v |-> Zero]

\* ------------------------------------------------------------------------
\* Program data
\* ------------------------------------------------------------------------
Pubkey_default == 0

MAX_SINGLE_STRATEGY_BPS == 4000
MIN_SINGLE_STRATEGY_BPS == 100
PLATFORM_FEE_BPS == 50
MANAGER_FEE_BPS == 150
RISK_TOLERANCE_BPS == 8000

ProtocolType == {"StableLending", "YieldFarming", "LiquidStaking"}

AllocationType ==
  {"PlatformFee", "ManagerIncentive", "TopPerformer", "RiskDiversification"}

RiskLimits_default ==
  [max_single_strategy_bps |-> MAX_SINGLE_STRATEGY_BPS,
   min_single_strategy_bps |-> MIN_SINGLE_STRATEGY_BPS,
   platform_fee_bps        |-> PLATFORM_FEE_BPS,
   manager_fee_bps         |-> MANAGER_FEE_BPS,
   risk_tolerance_bps      |-> RISK_TOLERANCE_BPS,
   platform_treasury       |-> Pubkey_default,
   manager_treasury        |-> Pubkey_default]

StrategyPerformanceData(id, score, balance, vol, protocol, rank) ==
  [strategy_id       |-> id,
   performance_score |-> score,
   current_balance   |-> balance,
   volatility_score  |-> vol,
   protocol_type     |-> protocol,
   percentile_rank   |-> rank]

CapitalAllocation(id, amt, type) ==
  [strategy_id |-> id, amount |-> amt, allocation_type |-> type]

\* The build of the program: an overflowing `*`, `+` or `-` panics when the
\* build has overflow checks and wraps when it has none.  "any" until an
\* overflow has wrapped, "wrapping" from then on.
VARIABLE build

VARIABLES
  alloc_pc,                \* position in calculate_optimal_allocation
  available_capital,       \* argument
  top_strategies,          \* argument
  risk_limits,             \* argument
  allocations,             \* the Vec being built; the returned list when done
  remaining_capital,
  platform_fee,
  manager_fee,
  index,                   \* loop index (0-based, as enumerate())
  skipped,                 \* history: the indices at which `continue` was taken
  alloc_result             \* "none", "Ok" or the error code returned

alloc_vars == <<alloc_pc, available_capital, top_strategies, risk_limits,
                allocations, remaining_capital, platform_fee, manager_fee,
                index, skipped, alloc_result>>

VARIABLES
  rank_pc,                 \* position in calculate_percentile_rankings
  strategies,              \* the Vec<StrategyData>, sorted and ranked in place
  underperformers,         \* the returned identifiers
  rank_result              \* "none", "Ok" or the error code returned

rank_vars == <<rank_pc, strategies, underperformers, rank_result>>

VARIABLES
  thr_pc,                  \* position in calculate_dynamic_threshold
  base_threshold,          \* argument (u8)
  average_volatility,      \* argument (u32)
  dynamic_threshold,       \* the returned threshold
  thr_result               \* "none", "Ok" or the error code returned

thr_vars == <<thr_pc, base_threshold, average_volatility, dynamic_threshold,
              thr_result>>

VARIABLES
  risk_pc,                 \* position in the calls of calculate_risk_adjustment
  risk_volatility,         \* the volatility_score arguments of two calls
  risk_config,             \* the RiskLimits argument of both calls
  risk_adjustments         \* the two returned multipliers

risk_vars == <<risk_pc, risk_volatility, risk_config, risk_adjustments>>

VARIABLE portfolio         \* the Portfolio account

VARIABLES
  plan_pc,                 \* position in execute_complete_rebalancing
  plan_strategies,         \* argument `strategies`
  plan_threshold,          \* local dynamic_threshold
  plan_underperformers,    \* local underperformers
  total_extractable,       \* local
  plan,                    \* the RebalancingPlan returned
  plan_result              \* "none", "Ok" or the error code returned

plan_vars == <<plan_pc, plan_strategies, plan_threshold, plan_underperformers,
               total_extractable, plan, plan_result>>

VARIABLES
  val_pc,                  \* position in validate_allocations
  val_allocations,         \* argument
  val_total,               \* the returned total
  val_result               \* "none", "Ok" or the error code returned

val_vars == <<val_pc, val_allocations, val_total, val_result>>

VARIABLES
  entry_point,             \* the instruction handler invoked last
  entry_result,            \* "none", "Ok" or the error code it returned
  entry_calls,             \* number of invocations so far
  clock,                   \* unix_timestamp the ranking trigger read last
  entry_allocations        \* argument of the last redistribution

entry_vars == <<entry_point, entry_result, entry_calls, clock, entry_allocations>>

vars == <<build, alloc_vars, rank_vars, thr_vars, risk_vars, portfolio,
          plan_vars, val_vars, entry_vars>>

\* what each function leaves alone
outside_alloc == <<rank_vars, thr_vars, risk_vars, portfolio, plan_vars, val_vars,
                   entry_vars>>
outside_rank  == <<alloc_vars, thr_vars, risk_vars, portfolio, plan_vars, val_vars,
                   entry_vars>>
outside_thr   == <<build, alloc_vars, rank_vars, risk_vars, portfolio, plan_vars,
                   val_vars,
                   entry_vars>>
outside_risk  == <<build, alloc_vars, rank_vars, thr_vars, portfolio, plan_vars,
                   val_vars,
                   entry_vars>>
outside_plan  == <<rank_vars, thr_vars, risk_vars, portfolio, val_vars,
                   entry_vars>>
outside_val   == <<build, alloc_vars, rank_vars, thr_vars, risk_vars, portfolio,
                   plan_vars,
                   entry_vars>>
outside_entry == <<build, alloc_vars, rank_vars, thr_vars, risk_vars, plan_vars,
                   val_vars>>

\* ------------------------------------------------------------------------
\* calculate_risk_adjustment
\* ------------------------------------------------------------------------
\* Mutant of calculate_risk_adjustment: the volatility is not inverted
risk_adjustment_not_inverted(volatility_score, limits) ==
  LET volatility_percentage == Min(volatility_score, 10000)
      risk_multiplier       == 5000 + (volatility_percentage * 10000) \div 10000
      final_multiplier      ==
        (risk_multiplier * limits.risk_tolerance_bps) \div 10000
  IN  Min(as_u32(final_multiplier), 15000)

\* lines 181-200
calculate_risk_adjustment(volatility_score, limits) ==
  LET volatility_percentage == Min(volatility_score, 10000)
      inverse_volatility    == 10000 - volatility_percentage
      min_multiplier        == 5000
      max_multiplier        == 15000
      risk_multiplier       ==
        min_multiplier +
          (inverse_volatility * (max_multiplier - min_multiplier)) \div 10000
      final_multiplier      ==
        (risk_multiplier * limits.risk_tolerance_bps) \div 10000
  IN  Min(as_u32(final_multiplier), max_multiplier)

\* two calls of calculate_risk_adjustment under one RiskLimits
RiskAdjustment ==
  /\ risk_pc = "call"
  /\ UNCHANGED <<risk_volatility, risk_config>>
  /\ UNCHANGED outside_risk
  /\ risk_pc' = "done"
  /\ risk_adjustments' =
       << calculate_risk_adjustment(risk_volatility[1], risk_config),
          calculate_risk_adjustment(risk_volatility[2], risk_config) >>

IdleRisk ==
  /\ risk_pc = "idle"
  /\ risk_volatility = <<0, 0>>
  /\ risk_config = RiskLimits_default
  /\ risk_adjustments = <<0, 0>>

\* ------------------------------------------------------------------------
\* Inputs of calculate_risk_adjustment
\* ------------------------------------------------------------------------
\* the volatility scores 0, 500, ..., 500 * RiskSteps, the neighbours of the
\* cap of 10000 and scores far above it
RiskSteps == 20

RiskVolatilities ==
  { 500 * k : k \in 0..RiskSteps }
    \cup { 1, 1000, 8000, 8750, 8751, 9999, 10001, 65535, 2147483647 }

RiskTolerances == { 0, 1, 5000, 8000, 9999, 10000, 12000, 20000 }

ArgsRisk ==
  /\ risk_pc = "call"
  /\ risk_volatility \in RiskVolatilities \X RiskVolatilities
  /\ \E t \in RiskTolerances :
       risk_config = [RiskLimits_default EXCEPT !.risk_tolerance_bps = t]
  /\ risk_adjustments = <<0, 0>>

NextRisk == RiskAdjustment

\* ------------------------------------------------------------------------
\* calculate_optimal_allocation
\* ------------------------------------------------------------------------
RECURSIVE SumScores(_)
SumScores(cands) ==
  IF cands = <<>> THEN Zero
  ELSE Add(Head(cands).performance_score, SumScores(Tail(cands)))

total_performance_score == SumScores(top_strategies)

\* the 64-bit products of the function, before wrapping
platform_fee_product == Mul(available_capital, risk_limits.platform_fee_bps)
manager_fee_product  == Mul(available_capital, risk_limits.manager_fee_bps)
max_single_product   == Mul(available_capital, risk_limits.max_single_strategy_bps)
min_single_product   == Mul(available_capital, risk_limits.min_single_strategy_bps)

max_single_allocation == Div(as_u64(max_single_product), 10000)
min_single_allocation == Div(as_u64(min_single_product), 10000)

protocol_minimum(protocol_type) ==
  CASE protocol_type = "StableLending" -> Wide(100000000)
    [] protocol_type = "YieldFarming"  -> Wide(500000000)
    [] protocol_type = "LiquidStaking" -> Wide(1000000000)

\* lines 60-94: the two require!s, the fees and the score total
AllocFees ==
  /\ alloc_pc = "call"
  /\ UNCHANGED <<available_capital, top_strategies, risk_limits, index, skipped>>
  /\ UNCHANGED outside_alloc
  /\ IF available_capital = Zero THEN
       /\ alloc_pc' = "err" /\ alloc_result' = "InsufficientBalance"
       /\ UNCHANGED <<build, allocations, remaining_capital, platform_fee,
                      manager_fee>>
     ELSE IF top_strategies = <<>> THEN
       /\ alloc_pc' = "err" /\ alloc_result' = "InsufficientStrategies"
       /\ UNCHANGED <<build, allocations, remaining_capital, platform_fee,
                      manager_fee>>
     ELSE
       LET wraps == overflows(platform_fee_product)
                      \/ overflows(manager_fee_product)
           pf    == Div(as_u64(platform_fee_product), 10000)
           mf    == Div(as_u64(manager_fee_product), 10000)
           a1    == IF pf # Zero
                    THEN <<CapitalAllocation(risk_limits.platform_treasury, pf,
                                             "PlatformFee")>>
                    ELSE <<>>
           r1    == IF pf # Zero THEN saturating_sub(available_capital, pf)
                    ELSE available_capital
           a2    == IF mf # Zero
                    THEN Append(a1, CapitalAllocation(risk_limits.manager_treasury,
                                                      mf, "ManagerIncentive"))
                    ELSE a1
           r2    == IF mf # Zero THEN saturating_sub(r1, mf) ELSE r1
       IN  \/ /\ wraps /\ build = "any"
              /\ alloc_pc' = "panic" /\ alloc_result' = "panic"
              /\ UNCHANGED <<build, allocations, remaining_capital,
                             platform_fee, manager_fee>>
           \/ /\ build' = IF wraps THEN "wrapping" ELSE build
              /\ platform_fee' = pf /\ manager_fee' = mf
              /\ IF total_performance_score # Zero THEN
                   /\ alloc_pc' = "loop" /\ alloc_result' = alloc_result
                   /\ allocations' = a2 /\ remaining_capital' = r2
                 ELSE
                   /\ alloc_pc' = "err"
                   /\ alloc_result' = "InvalidPerformanceScore"
                   /\ allocations' = <<>> /\ remaining_capital' = r2

\* Mutant of find_top: the last TopPerformer entry is found
RECURSIVE find_last_top(_, _)
find_last_top(allocs, i) ==
  IF i > Len(allocs) THEN 0
  ELSE LET later == find_last_top(allocs, i + 1)
       IN  IF later # 0 THEN later
           ELSE IF allocs[i].allocation_type = "TopPerformer" THEN i
           ELSE 0

\* Position of the first TopPerformer entry of a list, 0 when there is none
RECURSIVE find_top(_, _)
find_top(allocs, i) ==
  IF i > Len(allocs) THEN 0
  ELSE IF allocs[i].allocation_type = "TopPerformer" THEN i
  ELSE find_top(allocs, i + 1)

\* lines 102-115: the performance share of a candidate, clamped to the cap
capped_share(strategy) ==
  LET performance_allocation ==
        DivWide(MulWide(remaining_capital, strategy.performance_score),
                total_performance_score)
      allocation_amount == as_u64(performance_allocation)
  IN  IF Lt(max_single_allocation, allocation_amount)
      THEN max_single_allocation ELSE allocation_amount

\* Mutant of below_minimum: the protocol-specific match is left out
below_minimum_without_protocol(strategy, allocation_amount) ==
  Lt(allocation_amount, min_single_allocation)

\* lines 117-139: the two `continue` conditions
below_minimum(strategy, allocation_amount) ==
  \/ Lt(allocation_amount, min_single_allocation)
  \/ Lt(allocation_amount, protocol_minimum(strategy.protocol_type))

\* lines 141-148: risk adjustment, then the clamp to what is left
risk_adjusted(strategy, allocation_amount) ==
  LET risk_adjustment ==
        calculate_risk_adjustment(strategy.volatility_score, risk_limits)
      adjusted == as_u64(Div(Mul(allocation_amount, risk_adjustment), 10000))
  IN  IF Lt(remaining_capital, adjusted) THEN remaining_capital ELSE adjusted

\* lines 97-165: one iteration of the loop over top_strategies
AllocLoop ==
  /\ alloc_pc = "loop"
  /\ UNCHANGED <<available_capital, top_strategies, risk_limits, platform_fee,
                 manager_fee>>
  /\ UNCHANGED outside_alloc
  /\ IF index >= Len(top_strategies) \/ remaining_capital = Zero THEN
       /\ alloc_pc' = "dust"
       /\ UNCHANGED <<build, allocations, remaining_capital, index, skipped,
                      alloc_result>>
     ELSE
       LET strategy == top_strategies[index + 1]
           wraps    == overflows(max_single_product)
                         \/ overflows(min_single_product)
           share    == capped_share(strategy)
           amount   == risk_adjusted(strategy, share)
           type     == IF index < 3 THEN "TopPerformer"
                       ELSE "RiskDiversification"
       IN  \/ /\ wraps /\ build = "any"
              /\ alloc_pc' = "panic" /\ alloc_result' = "panic"
              /\ UNCHANGED <<build, allocations, remaining_capital, index, skipped>>
           \/ /\ build' = IF wraps THEN "wrapping" ELSE build
              /\ alloc_pc' = "loop" /\ alloc_result' = alloc_result
              /\ index' = index + 1
              /\ IF below_minimum(strategy, share) THEN
                   /\ skipped' = skipped \cup {index}
                   /\ UNCHANGED <<allocations, remaining_capital>>
                 ELSE IF amount = Zero THEN
                   UNCHANGED <<allocations, remaining_capital, skipped>>
                 ELSE
                   /\ skipped' = skipped
                   /\ allocations' =
                        Append(allocations,
                               CapitalAllocation(strategy.strategy_id, amount, type))
                   /\ remaining_capital' = saturating_sub(remaining_capital, amount)

\* lines 167-177: the dust sweep and the return
AllocDust ==
  /\ alloc_pc = "dust"
  /\ UNCHANGED <<build, available_capital, top_strategies, risk_limits,
                 remaining_capital, platform_fee, manager_fee, index, skipped>>
  /\ UNCHANGED outside_alloc
  /\ LET top == find_top(allocations, 1)
         sum == checked_add(IF top = 0 THEN Zero ELSE allocations[top].amount,
                            remaining_capital)
     IN  IF Lt(Wide(1000000), remaining_capital) /\ allocations # <<>> /\ top # 0
         THEN IF sum.some
              THEN /\ allocations' = [allocations EXCEPT ![top].amount = sum.v]
                   /\ alloc_pc' = "done" /\ alloc_result' = "Ok"
              ELSE /\ allocations' = <<>>
                   /\ alloc_pc' = "err" /\ alloc_result' = "BalanceOverflow"
         ELSE /\ alloc_pc' = "done" /\ alloc_result' = "Ok"
              /\ UNCHANGED allocations

\* ------------------------------------------------------------------------
\* validate_allocations
\* ------------------------------------------------------------------------
\* Mutant of validate_from: the amount checks come before the duplicate check
RECURSIVE validate_amount_first(_, _, _, _)
validate_amount_first(allocs, i, strategy_ids, total) ==
  IF i > Len(allocs) THEN [err |-> "Ok", total |-> total]
  ELSE LET allocation == allocs[i]
           sum        == checked_add(total, allocation.amount)
       IN  IF allocation.amount = Zero
             THEN [err |-> "InsufficientBalance", total |-> Zero]
           ELSE IF ~Lt(allocation.amount, Div(U64_MAX, 1000))
             THEN [err |-> "BalanceOverflow", total |-> Zero]
           ELSE IF allocation.strategy_id \in strategy_ids
             THEN [err |-> "DuplicateStrategy", total |-> Zero]
           ELSE IF ~sum.some
             THEN [err |-> "BalanceOverflow", total |-> Zero]
           ELSE validate_amount_first(allocs, i + 1,
                                      strategy_ids \cup {allocation.strategy_id},
                                      sum.v)

\* lines 207-222, from the entry at position i on
RECURSIVE validate_from(_, _, _, _)
validate_from(allocs, i, strategy_ids, total) ==
  IF i > Len(allocs) THEN [err |-> "Ok", total |-> total]
  ELSE LET allocation == allocs[i]
           sum        == checked_add(total, allocation.amount)
       IN  IF allocation.strategy_id \in strategy_ids
             THEN [err |-> "DuplicateStrategy", total |-> Zero]
           ELSE IF allocation.amount = Zero
             THEN [err |-> "InsufficientBalance", total |-> Zero]
           ELSE IF ~Lt(allocation.amount, Div(U64_MAX, 1000))
             THEN [err |-> "BalanceOverflow", total |-> Zero]
           ELSE IF ~sum.some
             THEN [err |-> "BalanceOverflow", total |-> Zero]
           ELSE validate_from(allocs, i + 1,
                              strategy_ids \cup {allocation.strategy_id}, sum.v)

validate_allocations(allocs) == validate_from(allocs, 1, {}, Zero)

\* a call of validate_allocations
ValidateAllocations ==
  /\ val_pc = "call"
  /\ UNCHANGED val_allocations
  /\ UNCHANGED outside_val
  /\ LET v == validate_allocations(val_allocations)
     IN  /\ val_pc' = (IF v.err = "Ok" THEN "done" ELSE "err")
         /\ val_result' = v.err
         /\ val_total' = v.total

IdleVal ==
  /\ val_pc = "idle"
  /\ val_allocations = <<>>
  /\ val_total = Zero
  /\ val_result = "none"

\* ------------------------------------------------------------------------
\* Inputs of validate_allocations
\* ------------------------------------------------------------------------
MaxEntries == 3

EntryAmounts ==
  { Zero, Wide(1), Wide(500000000), Sub(Div(U64_MAX, 1000), Wide(1)),
    Div(U64_MAX, 1000), U64_MAX }

Entries ==
  { CapitalAllocation(id, amount, type) :
      id \in {1, 2}, amount \in EntryAmounts, type \in {"TopPerformer"} }

EntryLists(n) == [1..n -> Entries]

ArgsVal ==
  /\ val_pc = "call"
  /\ \E n \in 0..MaxEntries : val_allocations \in EntryLists(n)
  /\ val_total = Zero
  /\ val_result = "none"

NextVal == ValidateAllocations

\* ------------------------------------------------------------------------
\* Inputs of the allocator
\* ------------------------------------------------------------------------
MaxCandidates == 4

\* (performance_score, volatility_score, protocol_type) of a candidate
Profiles ==
  { <<800, 2000, "StableLending">>,
    <<700, 3000, "YieldFarming">>,
    <<600, 4000, "LiquidStaking">>,
    <<5, 0, "StableLending">> }

CandidateLists(n) ==
  { [i \in 1..n |->
       StrategyPerformanceData(i, Wide(f[i][1]), Wide(1000000000), f[i][2],
                               f[i][3], 80)]
    : f \in [1..n -> Profiles] }

\* candidates without any performance score
ZeroScoreLists(n) ==
  { [i \in 1..n |->
       StrategyPerformanceData(i, Zero, Wide(1000000000), 2000,
                               "StableLending", 80)] }

\* a volatile liquid-staking candidate with the best score, ahead of calm
\* lending candidates
SkewedLists(n) ==
  { [i \in 1..n |->
       IF i = 1
       THEN StrategyPerformanceData(i, Wide(900), Wide(1000000000), 9000,
                                    "LiquidStaking", 90)
       ELSE StrategyPerformanceData(i, Wide(800), Wide(1000000000), 0,
                                    "StableLending", 80)] }

Treasuries(limits, p, m) ==
  [limits EXCEPT !.platform_treasury = p, !.manager_treasury = m]

LimitsSet ==
  { RiskLimits_default,
    Treasuries(RiskLimits_default, 101, 102),
    Treasuries([RiskLimits_default EXCEPT !.min_single_strategy_bps = 3000,
                                          !.max_single_strategy_bps = 5000,
                                          !.platform_fee_bps = 0,
                                          !.manager_fee_bps = 0,
                                          !.risk_tolerance_bps = 10000], 101, 102),
    Treasuries([RiskLimits_default EXCEPT !.platform_fee_bps = 6000,
                                          !.manager_fee_bps = 6000], 101, 102) }

Capitals ==
  { Zero, Wide(1), Wide(199), Wide(200), Wide(10000),
    Wide(1000000000), Mul(Wide(1000000000), 3), Mul(Wide(1000000000), 10),
    Add(Div(U64_MAX, 4000), Wide(1)),
    <<0, 0, 0, 2^15>>,
    U64_MAX }

ArgsAlloc ==
  /\ alloc_pc = "call"
  /\ available_capital \in Capitals
  /\ \E n \in 0..MaxCandidates :
       top_strategies \in CandidateLists(n) \cup ZeroScoreLists(n)
                            \cup SkewedLists(n)
  /\ risk_limits \in LimitsSet
  /\ allocations = <<>>
  /\ remaining_capital = Zero
  /\ platform_fee = Zero
  /\ manager_fee = Zero
  /\ index = 0
  /\ skipped = {}
  /\ alloc_result = "none"

IdleAlloc ==
  /\ alloc_pc = "idle"
  /\ available_capital = Zero
  /\ top_strategies = <<>>
  /\ risk_limits = RiskLimits_default
  /\ allocations = <<>>
  /\ remaining_capital = Zero
  /\ platform_fee = Zero
  /\ manager_fee = Zero
  /\ index = 0
  /\ skipped = {}
  /\ alloc_result = "none"

NextAlloc == AllocFees \/ AllocLoop \/ AllocDust

\* ------------------------------------------------------------------------
\* Claims about the allocator
\* ------------------------------------------------------------------------
\* sum of the first n amounts of a list
RECURSIVE SumFirst(_, _)
SumFirst(list, n) ==
  IF n = 0 THEN Zero ELSE Add(SumFirst(list, n - 1), list[n].amount)

RECURSIVE SumAmounts(_)
SumAmounts(allocs) ==
  IF allocs = <<>> THEN Zero
  ELSE Add(Head(allocs).amount, SumAmounts(Tail(allocs)))

\* C1: whenever calculate_optimal_allocation returns a list, the amounts of
\* its entries (fee and strategy entries, after the dust sweep) sum to at most
\* available_capital.
C1_SumWithinCapital ==
  alloc_pc = "done" => Le(SumAmounts(allocations), available_capital)

\* C2: whenever calculate_optimal_allocation returns a list (the candidates
\* carry pairwise distinct identifiers), validate_allocations accepts that list
\* and the total it returns is the sum of the amounts.
C2_RoundTrip ==
  alloc_pc = "done" =>
    LET v == validate_allocations(allocations)
    IN  v.err = "Ok" /\ v.total = SumAmounts(allocations)

\* The minima of claim C3, as the claim states them
C3_ProtocolMinimum(protocol_type) ==
  IF protocol_type = "StableLending" THEN Wide(100000000)
  ELSE IF protocol_type = "YieldFarming" THEN Wide(500000000)
  ELSE Wide(1000000000)

C3_BelowMinimum ==
  /\ alloc_pc = "loop"
  /\ index < Len(top_strategies)
  /\ remaining_capital # Zero
  /\ LET strategy == top_strategies[index + 1]
         share    == capped_share(strategy)
     IN  \/ Lt(share, Div(as_u64(Mul(available_capital,
                                     risk_limits.min_single_strategy_bps)), 10000))
         \/ Lt(share, C3_ProtocolMinimum(strategy.protocol_type))

C4_NoSilentWrap ==
  alloc_pc \in {"loop", "dust", "done"} =>
    /\ platform_fee = Div(platform_fee_product, 10000)
    /\ manager_fee = Div(manager_fee_product, 10000)
    /\ index > 0 =>
         /\ max_single_allocation = Div(max_single_product, 10000)
         /\ min_single_allocation = Div(min_single_product, 10000)

C13_Returned == alloc_pc \in {"done", "err", "panic"}

C13_Expected ==
  IF available_capital = Zero THEN "InsufficientBalance"
  ELSE IF top_strategies = <<>> THEN "InsufficientStrategies"
  ELSE IF SumScores(top_strategies) = Zero THEN "InvalidPerformanceScore"
  ELSE "none"

\* C13: calculate_optimal_allocation returns an error, and no list, exactly
\* when available_capital is 0 (InsufficientBalance), else when the candidate
\* list is empty (InsufficientStrategies), else when the performance scores
\* sum to 0 (InvalidPerformanceScore).
C13_ErrorCases ==
  C13_Returned =>
    IF C13_Expected = "none" THEN alloc_pc # "err"
    ELSE /\ alloc_pc = "err"
         /\ alloc_result = C13_Expected
         /\ allocations = <<>>

C14_Descending ==
  \A i \in 1..(Len(top_strategies) - 1) :
    Le(top_strategies[i + 1].performance_score,
       top_strategies[i].performance_score)

C14_StrategyEntries ==
  { k \in 1..Len(allocations) :
      allocations[k].allocation_type \in {"TopPerformer", "RiskDiversification"} }

\* the amount of the entry of candidate id, Zero when it has none
C14_Amount(id) ==
  LET entries == { k \in C14_StrategyEntries : allocations[k].strategy_id = id }
  IN  IF entries = {} THEN Zero ELSE allocations[CHOOSE k \in entries : TRUE].amount

\* C14: when the candidates come in descending order of performance score and
\* the returned list has at least two strategy entries, the amount of the
\* first candidate is at least the amount of the second (a candidate without
\* an entry counts as 0).
C14_FirstGetsMost ==
  (/\ alloc_pc = "done" /\ C14_Descending
   /\ Len(top_strategies) >= 2
   /\ Cardinality(C14_StrategyEntries) >= 2) =>
    Le(C14_Amount(top_strategies[2].strategy_id),
       C14_Amount(top_strategies[1].strategy_id))

\* floor(available_capital * max_single_strategy_bps / 10000), the product
\* taken in unbounded arithmetic
C23_MaxSingle ==
  Div(Mul(available_capital, risk_limits.max_single_strategy_bps), 10000)

\* C23: in every returned list, the final amount of each strategy entry is
\* at most max_single (40% of available_capital under the default limits).
C23_DiversificationCap ==
  alloc_pc = "done" =>
    \A k \in C14_StrategyEntries : Le(allocations[k].amount, C23_MaxSingle)

\* floor(available_capital * min_single_strategy_bps / 10000), the product
\* taken in unbounded arithmetic
C27_MinSingle ==
  Div(Mul(available_capital, risk_limits.min_single_strategy_bps), 10000)

\* the candidate an entry was pushed for
C27_Candidate(k) ==
  top_strategies[CHOOSE i \in 1..Len(top_strategies) :
                   top_strategies[i].strategy_id = allocations[k].strategy_id]

\* C27: in every returned list, the final amount of each strategy entry is
\* at least min_single and at least the protocol minimum of its candidate,
\* also after the risk adjustment and the clamp to the remaining capital.
C27_MinimumViable ==
  alloc_pc = "done" =>
    \A k \in C14_StrategyEntries :
      /\ Le(C27_MinSingle, allocations[k].amount)
      /\ Le(protocol_minimum(C27_Candidate(k).protocol_type), allocations[k].amount)

C24_Tops ==
  { k \in 1..Len(allocations) : allocations[k].allocation_type = "TopPerformer" }

C24_First == CHOOSE k \in C24_Tops : \A j \in C24_Tops : k <= j

C24_Swept == Add(allocations[C24_First].amount, remaining_capital)

\* the dust sweep runs on the default limits
C24_Sweeping ==
  /\ alloc_pc = "dust"
  /\ alloc_pc' # "dust"
  /\ risk_limits = RiskLimits_default

C24_Step ==
  C24_Sweeping =>
    IF Lt(Wide(1000000), remaining_capital) /\ C24_Tops # {}
    THEN IF Le(C24_Swept, U64_MAX)
         THEN /\ alloc_pc' = "done"
              /\ allocations' = [allocations EXCEPT ![C24_First].amount = C24_Swept]
              /\ SumFirst(allocations', Len(allocations')) = available_capital
         ELSE alloc_result' = "BalanceOverflow"
    ELSE /\ alloc_pc' = "done"
         /\ allocations' = allocations

\* C24: with the default RiskLimits, a leftover above 1,000,000 is added to
\* the first TopPerformer entry in list order, no other entry changes and the
\* amounts then sum to exactly available_capital; with a leftover of at most
\* 1,000,000 or no TopPerformer entry no entry changes; an overflowing
\* addition fails with BalanceOverflow.
C24_DustSweep == [][C24_Step]_vars

\* C24 witness: a list returned under the default limits after a sweep of
\* more than 1,000,000 into the first of two TopPerformer entries.
C24_Witness ==
  /\ alloc_pc = "done"
  /\ risk_limits = RiskLimits_default
  /\ Lt(Wide(1000000), remaining_capital)
  /\ Cardinality(C24_Tops) >= 2
  /\ SumFirst(allocations, Len(allocations)) = available_capital

\* ------------------------------------------------------------------------
\* calculate_percentile_rankings
\* ------------------------------------------------------------------------
StrategyData(id, score, balance, vol, rank, threshold) ==
  [strategy_id         |-> id,
   performance_score   |-> score,
   current_balance     |-> balance,
   volatility_score    |-> vol,
   percentile_rank     |-> rank,
   rebalance_threshold |-> threshold]

\* Mutant of precedes: the balance tie-break prefers the lower balance
precedes_lower_balance(a, b) ==
  \/ b.performance_score < a.performance_score
  \/ /\ b.performance_score = a.performance_score
     /\ \/ a.current_balance < b.current_balance
        \/ /\ b.current_balance = a.current_balance
           /\ a.volatility_score < b.volatility_score

\* Mutant of precedes: the tie-break on volatility is missing
precedes_without_volatility(a, b) ==
  \/ b.performance_score < a.performance_score
  \/ /\ b.performance_score = a.performance_score
     /\ b.current_balance < a.current_balance

\* the comparator of sort_by returns Less for (a, b)
precedes(a, b) ==
  \/ b.performance_score < a.performance_score
  \/ /\ b.performance_score = a.performance_score
     /\ \/ b.current_balance < a.current_balance
        \/ /\ b.current_balance = a.current_balance
           /\ a.volatility_score < b.volatility_score

\* Vec::sort_by is a stable sort: x goes behind every element it does not
\* strictly precede
RECURSIVE insert_position(_, _, _)
insert_position(sorted, x, k) ==
  IF k > Len(sorted) THEN k
  ELSE IF precedes(x, sorted[k]) THEN k
  ELSE insert_position(sorted, x, k + 1)

insert_sorted(sorted, x) ==
  LET k == insert_position(sorted, x, 1)
  IN  SubSeq(sorted, 1, k - 1) \o <<x>> \o SubSeq(sorted, k, Len(sorted))

RECURSIVE sort_from(_, _, _)
sort_from(v, i, sorted) ==
  IF i > Len(v) THEN sorted
  ELSE sort_from(v, i + 1, insert_sorted(sorted, v[i]))

sort_by(v) == sort_from(v, 1, <<>>)

as_u8(n) == n % 2^8

\* Mutant of percentile: the rank is counted from the top
percentile_from_top(total_strategies, i) ==
  IF total_strategies = 1 THEN 50
  ELSE as_u8((i * 100) \div (total_strategies - 1))

\* lines 61-68, for the 0-based index i
percentile(total_strategies, i) ==
  IF total_strategies = 1 THEN 50
  ELSE LET rank_from_bottom == total_strategies - 1 - i
       IN  as_u8((rank_from_bottom * 100) \div (total_strategies - 1))

\* lines 76-77
threshold_strategies(total_strategies, strategy_data) ==
  Max((total_strategies * strategy_data.rebalance_threshold) \div 100, 1)

\* line 79: `total_strategies - threshold_strategies` leaves the range of usize
subtraction_overflows(total_strategies, strategy_data) ==
  /\ total_strategies > 4
  /\ threshold_strategies(total_strategies, strategy_data) > total_strategies

\* Mutant of pushed: portfolios of at most 4 strategies flag their last one
pushed_in_small_portfolios(total_strategies, i, strategy_data) ==
  IF total_strategies <= 4 THEN i = total_strategies - 1
  ELSE /\ ~subtraction_overflows(total_strategies, strategy_data)
       /\ i >= total_strategies - threshold_strategies(total_strategies, strategy_data)

\* Mutant of pushed: the cut is one position late
pushed_one_late(total_strategies, i, strategy_data) ==
  /\ total_strategies > 4
  /\ ~subtraction_overflows(total_strategies, strategy_data)
  /\ i > total_strategies - threshold_strategies(total_strategies, strategy_data)

\* lines 71-85: the strategy at 0-based index i is pushed to underperformers.
\* A wrapped subtraction yields a bound no index reaches.
pushed(total_strategies, i, strategy_data) ==
  /\ total_strategies > 4
  /\ ~subtraction_overflows(total_strategies, strategy_data)
  /\ i >= total_strategies - threshold_strategies(total_strategies, strategy_data)

\* the loop of lines 59-92 over the sorted vector, up to 0-based index `last`
assign_ranks(sorted, last) ==
  [i \in 1..Len(sorted) |->
     IF i - 1 <= last
     THEN [sorted[i] EXCEPT !.percentile_rank = percentile(Len(sorted), i - 1)]
     ELSE sorted[i]]

RECURSIVE collect_pushed(_, _)
collect_pushed(sorted, i) ==
  IF i > Len(sorted) THEN <<>>
  ELSE (IF pushed(Len(sorted), i - 1, sorted[i])
        THEN <<sorted[i].strategy_id>> ELSE <<>>)
       \o collect_pushed(sorted, i + 1)

\* lines 45-95
RankStrategies ==
  /\ rank_pc = "call"
  /\ UNCHANGED outside_rank
  /\ IF strategies = <<>> THEN
       /\ rank_pc' = "err" /\ rank_result' = "InsufficientStrategies"
       /\ UNCHANGED <<build, strategies, underperformers>>
     ELSE
       \E sorted \in {sort_by(strategies)} :
         LET n        == Len(sorted)
             overflow == {i \in 1..n : subtraction_overflows(n, sorted[i])}
             first    == CHOOSE i \in overflow : \A j \in overflow : i <= j
         IN  \/ /\ overflow # {} /\ build = "any"
                /\ rank_pc' = "panic" /\ rank_result' = "panic"
                /\ strategies' = assign_ranks(sorted, first - 1)
                /\ UNCHANGED <<build, underperformers>>
             \/ /\ build' = IF overflow # {} THEN "wrapping" ELSE build
                /\ rank_pc' = "done" /\ rank_result' = "Ok"
                /\ strategies' = assign_ranks(sorted, n - 1)
                /\ underperformers' = collect_pushed(sorted, 1)

IdleRank ==
  /\ rank_pc = "idle"
  /\ strategies = <<>>
  /\ underperformers = <<>>
  /\ rank_result = "none"

\* ------------------------------------------------------------------------
\* Inputs of the ranker
\* ------------------------------------------------------------------------
MaxStrategies == 5
LargeCohort == 102

\* (performance_score, current_balance, volatility_score)
Metrics ==
  { <<2, 1, 2>>, <<1, 2, 2>>, <<1, 1, 1>>, <<1, 1, 2>> }

Thresholds == {10, 40, 100, 150}

\* strategies at odd positions carry the threshold t1, the others t2
SmallCohorts(n) ==
  { [i \in 1..n |->
       StrategyData(i, m[i][1], m[i][2], m[i][3], 0,
                    IF i % 2 = 1 THEN t[1] ELSE t[2])]
    : m \in [1..n -> Metrics], t \in Thresholds \X Thresholds }

\* large cohorts: one score throughout, or the score falling every third
\* position; the balance rising with the position
LargeCohorts(n) ==
  { [i \in 1..n |->
       StrategyData(i, IF flat THEN 1 ELSE n - (i \div 3), i, 2, 0, t)]
    : flat \in BOOLEAN, t \in Thresholds }

ArgsRank ==
  /\ rank_pc = "call"
  /\ \/ \E n \in 0..MaxStrategies : strategies \in SmallCohorts(n)
     \/ strategies \in LargeCohorts(LargeCohort)
  /\ underperformers = <<>>
  /\ rank_result = "none"

NextRank == RankStrategies

\* ------------------------------------------------------------------------
\* calculate_dynamic_threshold
\* ------------------------------------------------------------------------
\* `as u8` of a u64
wide_as_u8(x) == IF x = <<>> THEN 0 ELSE as_u8(Head(x))

clamp(x, lo, hi) == IF x < lo THEN lo ELSE IF x > hi THEN hi ELSE x

\* Mutant of threshold_value: the lower clamp is missing
threshold_value_without_floor(base, volatility) ==
  LET volatility_adjustment == Div(Mul(volatility, 20), 10000)
      sum == checked_add(Wide(base), volatility_adjustment)
  IN  [some |-> sum.some, v |-> Min(wide_as_u8(sum.v), 40)]

\* lines 74-82: the adjustment in u64, the checked sum cast to u8, the clamp
threshold_value(base, volatility) ==
  LET volatility_adjustment == Div(Mul(volatility, 20), 10000)
      sum == checked_add(Wide(base), volatility_adjustment)
  IN  [some |-> sum.some, v |-> clamp(wide_as_u8(sum.v), 10, 40)]

\* lines 63-83
DynamicThreshold ==
  /\ thr_pc = "call"
  /\ UNCHANGED <<base_threshold, average_volatility>>
  /\ UNCHANGED outside_thr
  /\ IF base_threshold > 100 THEN
       /\ thr_pc' = "err" /\ thr_result' = "InvalidRebalanceThreshold"
       /\ UNCHANGED dynamic_threshold
     ELSE
       LET t == threshold_value(base_threshold, average_volatility)
       IN  IF t.some
           THEN /\ thr_pc' = "done" /\ thr_result' = "Ok"
                /\ dynamic_threshold' = t.v
           ELSE /\ thr_pc' = "err" /\ thr_result' = "BalanceOverflow"
                /\ UNCHANGED dynamic_threshold

IdleThr ==
  /\ thr_pc = "idle"
  /\ base_threshold = 0
  /\ average_volatility = Zero
  /\ dynamic_threshold = 0
  /\ thr_result = "none"

\* ------------------------------------------------------------------------
\* Inputs of calculate_dynamic_threshold
\* ------------------------------------------------------------------------
\* the adjustment is floor(volatility / 500): every step up to VolatilitySteps
\* is entered, left and crossed
VolatilitySteps == 131

U32_MAX == <<Limb - 1, Limb - 1>>

Volatilities ==
  { Wide(500 * k + d) : k \in 0..VolatilitySteps, d \in {0, 1, 499} }
    \cup { Wide(100), Wide(65535), Wide(127999), Wide(128000), U32_MAX }

BaseThresholds == (0..45) \cup {99, 100, 101, 150, 2^8 - 1}

ArgsThr ==
  /\ thr_pc = "call"
  /\ base_threshold \in BaseThresholds
  /\ average_volatility \in Volatilities
  /\ dynamic_threshold = 0
  /\ thr_result = "none"

NextThr == DynamicThreshold

\* ------------------------------------------------------------------------
\* execute_complete_rebalancing
\* ------------------------------------------------------------------------
Portfolio(base, pause, last, interval, moved, total) ==
  [base_threshold         |-> base,
   emergency_pause        |-> pause,
   last_rebalance         |-> last,
   min_rebalance_interval |-> interval,
   total_capital_moved    |-> moved,
   total_strategies       |-> total]

RebalancingPlan(targets, total, allocs, fees, improvement) ==
  [extraction_targets   |-> targets,
   total_to_extract     |-> total,
   redistribution_plan  |-> allocs,
   estimated_fees       |-> fees,
   expected_improvement |-> improvement]

NoPlan == RebalancingPlan(<<>>, Zero, <<>>, Zero, Zero)

RECURSIVE SumVolatility(_)
SumVolatility(list) ==
  IF list = <<>> THEN 0
  ELSE Head(list).volatility_score + SumVolatility(Tail(list))

\* lines 269-273
mean_volatility(list) == as_u32(SumVolatility(list) \div Len(list))

\* Mutant of is_underperformer: the cutoff itself counts as underperforming
is_underperformer_inclusive(s, threshold) == s.percentile_rank <= threshold

\* line 280
is_underperformer(s, threshold) == s.percentile_rank < threshold

\* line 287
is_top_performer(s) == s.percentile_rank >= 75

RECURSIVE select_underperformers(_, _)
select_underperformers(list, threshold) ==
  IF list = <<>> THEN <<>>
  ELSE (IF is_underperformer(Head(list), threshold) THEN <<Head(list)>> ELSE <<>>)
       \o select_underperformers(Tail(list), threshold)

RECURSIVE select_top(_)
select_top(list) ==
  IF list = <<>> THEN <<>>
  ELSE (IF is_top_performer(Head(list)) THEN <<Head(list)>> ELSE <<>>)
       \o select_top(Tail(list))

\* Iterator::take
take(list, n) == SubSeq(list, 1, Min(n, Len(list)))

\* Mutant of SumExtractable: the reserve of 10_000_000 is not kept back
RECURSIVE SumBalances(_)
SumBalances(list) ==
  IF list = <<>> THEN Zero
  ELSE Add(Head(list).current_balance, SumBalances(Tail(list)))

\* lines 296-299, before any wrapping of the sum
RECURSIVE SumExtractable(_)
SumExtractable(list) ==
  IF list = <<>> THEN Zero
  ELSE Add(saturating_sub(Head(list).current_balance, Wide(10000000)),
           SumExtractable(Tail(list)))

RECURSIVE identifiers(_)
identifiers(list) ==
  IF list = <<>> THEN <<>>
  ELSE <<Head(list).strategy_id>> \o identifiers(Tail(list))

\* lines 329-341; the sum of line 337 and the product of line 340 are 64-bit:
\* `wraps` tells whether one of them leaves the range, `v` is the value a
\* wrapping build returns
calculate_expected_improvement(top_performers) ==
  IF top_performers = <<>> THEN [wraps |-> FALSE, v |-> Zero]
  ELSE LET sum               == SumScores(top_performers)
           average_top_score == Div(as_u64(sum), Len(top_performers))
           product           == Mul(average_top_score, 15)
       IN  [wraps |-> overflows(sum) \/ overflows(product),
            v     |-> Div(as_u64(product), 100)]

\* the call of calculate_optimal_allocation of lines 304-309
CallAllocator(capital, candidates, limits) ==
  /\ alloc_pc' = "call"
  /\ available_capital' = capital
  /\ top_strategies' = candidates
  /\ risk_limits' = limits
  /\ allocations' = <<>>
  /\ remaining_capital' = Zero
  /\ platform_fee' = Zero
  /\ manager_fee' = Zero
  /\ index' = 0
  /\ skipped' = {}
  /\ alloc_result' = "none"

PlanFails(code) ==
  /\ plan_pc' = (IF code = "panic" THEN "panic" ELSE "err")
  /\ plan_result' = code
  /\ UNCHANGED <<build, alloc_vars, plan>>

\* lines 268-308: the selection of both sets, the extractable total and the
\* call of the allocator
PlanSelect ==
  /\ plan_pc = "call"
  /\ UNCHANGED plan_strategies
  /\ UNCHANGED outside_plan
  /\ IF plan_strategies = <<>> THEN
       /\ PlanFails("InsufficientStrategies")
       /\ UNCHANGED <<plan_threshold, plan_underperformers, total_extractable>>
     ELSE IF portfolio.base_threshold > 100 THEN
       /\ PlanFails("InvalidRebalanceThreshold")
       /\ UNCHANGED <<plan_threshold, plan_underperformers, total_extractable>>
     ELSE
       LET t     == threshold_value(portfolio.base_threshold,
                                    Wide(mean_volatility(plan_strategies)))
           under == select_underperformers(plan_strategies, t.v)
           top   == take(select_top(plan_strategies), 5)
           sum   == SumExtractable(under)
       IN  IF ~t.some THEN
             /\ PlanFails("BalanceOverflow")
             /\ UNCHANGED <<plan_threshold, plan_underperformers,
                            total_extractable>>
           ELSE
             /\ plan_threshold' = t.v
             /\ plan_underperformers' = under
             /\ IF under = <<>> \/ top = <<>> THEN
                  /\ PlanFails("InsufficientStrategies")
                  /\ UNCHANGED total_extractable
                ELSE
                  \/ /\ overflows(sum) /\ build = "any"
                     /\ PlanFails("panic")
                     /\ UNCHANGED total_extractable
                  \/ /\ total_extractable' = as_u64(sum)
                     /\ IF Le(as_u64(sum), Wide(100000000)) THEN
                          /\ plan_pc' = "err"
                          /\ plan_result' = "InsufficientBalance"
                          /\ build' = IF overflows(sum) THEN "wrapping" ELSE build
                          /\ UNCHANGED <<alloc_vars, plan>>
                        ELSE
                          /\ plan_pc' = "allocating"
                          /\ build' = IF overflows(sum) THEN "wrapping" ELSE build
                          /\ CallAllocator(as_u64(sum), top, RiskLimits_default)
                          /\ UNCHANGED <<plan, plan_result>>

\* lines 309-317: the allocator has returned
PlanAssemble ==
  /\ plan_pc = "allocating"
  /\ alloc_pc \in {"done", "err", "panic"}
  /\ UNCHANGED <<plan_strategies, plan_threshold, plan_underperformers,
                 total_extractable, alloc_vars>>
  /\ UNCHANGED outside_plan
  /\ IF alloc_pc # "done" THEN
       /\ plan_pc' = alloc_pc /\ plan_result' = alloc_result
       /\ UNCHANGED <<build, plan>>
     ELSE
       LET product     == Mul(total_extractable, 200)
           improvement == calculate_expected_improvement(top_strategies)
           wraps       == overflows(product) \/ improvement.wraps
       IN  \/ /\ wraps /\ build = "any"
              /\ plan_pc' = "panic" /\ plan_result' = "panic"
              /\ UNCHANGED <<build, plan>>
           \/ /\ build' = IF wraps THEN "wrapping" ELSE build
              /\ plan_pc' = "done" /\ plan_result' = "Ok"
              /\ plan' = RebalancingPlan(identifiers(plan_underperformers),
                                         total_extractable, allocations,
                                         Div(as_u64(product), 10000),
                                         improvement.v)

\* i64 timestamps, kept as the value plus 2^63 so that the order of the
\* representations is the order of the values
I64_BIAS == Add(Div(U64_MAX, 2), Wide(1))
I64_MIN  == Zero
I64_MAX  == U64_MAX
I64(n)   == IF n < 0 THEN Sub(I64_BIAS, Wide(0 - n)) ELSE Add(I64_BIAS, Wide(n))

\* i64::saturating_add
i64_saturating_add(x, y) ==
  LET s == Add(x, y)
  IN  IF Lt(s, I64_BIAS) THEN I64_MIN
      ELSE IF Lt(I64_MAX, Sub(s, I64_BIAS)) THEN I64_MAX
      ELSE Sub(s, I64_BIAS)

\* Portfolio::can_rebalance
can_rebalance(self, current_time) ==
  /\ ~self.emergency_pause
  /\ Le(i64_saturating_add(self.last_rebalance, self.min_rebalance_interval),
        current_time)

\* Mutant of execute_ranking_cycle: the require on the pause flag is missing
ranking_cycle_unguarded(p, current_time) ==
  IF ~can_rebalance(p, current_time)
    THEN [err |-> "InvalidRebalanceInterval", portfolio |-> p]
  ELSE IF ~(p.total_strategies >= 2)
    THEN [err |-> "InsufficientStrategies", portfolio |-> p]
  ELSE [err |-> "Ok", portfolio |-> [p EXCEPT !.last_rebalance = current_time]]

\* execute_ranking_cycle, on the portfolio account and the clock's timestamp
execute_ranking_cycle(p, current_time) ==
  IF p.emergency_pause
    THEN [err |-> "EmergencyPaused", portfolio |-> p]
  ELSE IF ~can_rebalance(p, current_time)
    THEN [err |-> "InvalidRebalanceInterval", portfolio |-> p]
  ELSE IF ~(p.total_strategies >= 2)
    THEN [err |-> "InsufficientStrategies", portfolio |-> p]
  ELSE [err |-> "Ok", portfolio |-> [p EXCEPT !.last_rebalance = current_time]]

\* Mutant of redistribute_capital: the counter is added to without a check
redistribute_wrapping(p, allocs) ==
  IF p.emergency_pause
    THEN [err |-> "EmergencyPaused", portfolio |-> p]
  ELSE IF allocs = <<>>
    THEN [err |-> "InsufficientStrategies", portfolio |-> p]
  ELSE IF ~(Len(allocs) <= 20)
    THEN [err |-> "TooManyStrategies", portfolio |-> p]
  ELSE LET total_allocated == validate_allocations(allocs)
       IN  IF total_allocated.err # "Ok"
             THEN [err |-> total_allocated.err, portfolio |-> p]
           ELSE [err |-> "Ok",
                 portfolio |->
                   [p EXCEPT !.total_capital_moved =
                      as_u64(Add(p.total_capital_moved, total_allocated.total))]]

\* redistribute_capital, on the portfolio account and the allocation list
redistribute_capital(p, allocs) ==
  IF p.emergency_pause
    THEN [err |-> "EmergencyPaused", portfolio |-> p]
  ELSE IF allocs = <<>>
    THEN [err |-> "InsufficientStrategies", portfolio |-> p]
  ELSE IF ~(Len(allocs) <= 20)
    THEN [err |-> "TooManyStrategies", portfolio |-> p]
  ELSE LET total_allocated == validate_allocations(allocs)
           moved == checked_add(p.total_capital_moved, total_allocated.total)
       IN  IF total_allocated.err # "Ok"
             THEN [err |-> total_allocated.err, portfolio |-> p]
           ELSE IF ~moved.some
             THEN [err |-> "BalanceOverflow", portfolio |-> p]
           ELSE [err |-> "Ok",
                 portfolio |-> [p EXCEPT !.total_capital_moved = moved.v]]

MaxCalls == 2

\* the instruction's clock and argument
Clocks == { I64_MIN, I64(-1), I64(3599), I64(3600), I64(90000), I64_MAX }

MaxRedistributed == 2

RedistributedAmounts == { Zero, Wide(500000000), Div(U64_MAX, 1000) }

Redistributions(n) ==
  [1..n -> { CapitalAllocation(id, amount, type) :
               id \in {1}, amount \in RedistributedAmounts,
               type \in {"TopPerformer"} }
             \cup { CapitalAllocation(2, Wide(500000000), "TopPerformer") }]

\* lists of 20 and of 21 entries with distinct identifiers
FullList(n) == [i \in 1..(20 + n) |-> CapitalAllocation(i, Wide(1), "TopPerformer")]

AllocationLists ==
  UNION { Redistributions(n) : n \in 0..MaxRedistributed }
    \cup { FullList(0), FullList(1) }

\* an invocation of the ranking trigger
ExecuteRankingCycle ==
  /\ entry_calls < MaxCalls
  /\ \E current_time \in Clocks :
       \E r \in { execute_ranking_cycle(portfolio, current_time) } :
         /\ portfolio' = r.portfolio
         /\ entry_result' = r.err
         /\ clock' = current_time
  /\ entry_point' = "execute_ranking_cycle"
  /\ entry_calls' = entry_calls + 1
  /\ UNCHANGED entry_allocations
  /\ UNCHANGED outside_entry

\* an invocation of the redistribution trigger
RedistributeCapital ==
  /\ entry_calls < MaxCalls
  /\ \E allocs \in AllocationLists :
       \E r \in { redistribute_capital(portfolio, allocs) } :
         /\ portfolio' = r.portfolio
         /\ entry_result' = r.err
         /\ entry_allocations' = allocs
  /\ entry_point' = "redistribute_capital"
  /\ entry_calls' = entry_calls + 1
  /\ UNCHANGED clock
  /\ UNCHANGED outside_entry

IdleEntry ==
  /\ entry_point = "none"
  /\ entry_result = "none"
  /\ entry_calls = 0
  /\ clock = I64_MIN
  /\ entry_allocations = <<>>

\* the portfolio account the handlers are given
Accounts ==
  { Portfolio(15, pause, last, interval, moved, total) :
      pause \in BOOLEAN,
      last \in { I64(0), I64_MAX },
      interval \in { I64(3600), I64(86400) },
      moved \in { Zero, U64_MAX },
      total \in { 1, 2 } }

ArgsEntry ==
  /\ portfolio \in Accounts
  /\ IdleEntry

NextEntry == ExecuteRankingCycle \/ RedistributeCapital

IdlePortfolio == portfolio = Portfolio(15, FALSE, I64(0), I64(3600), Zero, 5)

IdlePlan ==
  /\ plan_pc = "idle"
  /\ plan_strategies = <<>>
  /\ plan_threshold = 0
  /\ plan_underperformers = <<>>
  /\ total_extractable = Zero
  /\ plan = NoPlan
  /\ plan_result = "none"

\* ------------------------------------------------------------------------
\* Inputs of execute_complete_rebalancing
\* ------------------------------------------------------------------------
MaxPlanStrategies == 3
PlanCohort == 7

Billion == Wide(1000000000)

\* (percentile_rank, current_balance, volatility_score, performance_score,
\*  protocol_type)
PlanProfiles ==
  { <<95, Mul(Billion, 5), 1500, 6000, "StableLending">>,
    <<90, Billion, 1000, 2^15 - 1, "StableLending">>,
    <<75, Billion, 0, 0, "LiquidStaking">>,
    <<15, Mul(Billion, 2), 8500, 2000, "YieldFarming">>,
    <<0, Wide(5000000), 0, 100, "StableLending">>,
    <<39, Wide(110000000), 10000, 3000, "YieldFarming">>,
    <<74, Billion, 300000, 5000, "LiquidStaking">>,
    <<10, Add(Mul(Mul(Billion, 10000), 10000), Wide(10000000)), 500, 100,
      "StableLending">>,
    <<20, Add(<<0, 0, 0, 2^15>>, Wide(10000000)), 2000, 100, "YieldFarming">> }

\* the score 2^15 - 1 of a profile stands for u64::MAX
FromProfile(i, f) ==
  StrategyPerformanceData(i, IF f[4] = 2^15 - 1 THEN U64_MAX ELSE Wide(f[4]),
                          f[2], f[3], f[5], f[1])

SmallPlans(n) ==
  { [i \in 1..n |-> FromProfile(i, f[i])] : f \in [1..n -> PlanProfiles] }

\* one underperformer among top performers
LargePlans(n) ==
  { [i \in 1..n |->
       IF i = k
       THEN FromProfile(i, <<15, Mul(Billion, 2), 8500, 2000, "YieldFarming">>)
       ELSE FromProfile(i, <<75 + i, Mul(Billion, 5), 1500, 900 - i,
                             "StableLending">>)]
    : k \in 1..n }

PlanVolatilities == {0, 499, 500, 501, 1500, 8500, 10000}

\* the two strategies of test_rebalancing_plan_generation, in either order,
\* with any volatility scores and with the test's score or the largest score
EndToEndPlans ==
  { IF swap
    THEN << FromProfile(1, <<15, Mul(Billion, 2), b, 2000, "YieldFarming">>),
            FromProfile(2, <<95, Mul(Billion, 5), a, score, "StableLending">>) >>
    ELSE << FromProfile(1, <<95, Mul(Billion, 5), a, score, "StableLending">>),
            FromProfile(2, <<15, Mul(Billion, 2), b, 2000, "YieldFarming">>) >>
    : a \in PlanVolatilities, b \in PlanVolatilities, swap \in BOOLEAN,
      score \in {9000, 2^15 - 1} }

PlanBaseThresholds == {0, 15, 30, 50, 100, 101}

ArgsPlan ==
  /\ plan_pc = "call"
  /\ \/ \E n \in 0..MaxPlanStrategies : plan_strategies \in SmallPlans(n)
     \/ plan_strategies \in LargePlans(PlanCohort)
     \/ plan_strategies \in EndToEndPlans
  /\ \E b \in PlanBaseThresholds :
       portfolio = Portfolio(b, FALSE, I64(0), I64(3600), Zero,
                              Len(plan_strategies))
  /\ plan_threshold = 0
  /\ plan_underperformers = <<>>
  /\ total_extractable = Zero
  /\ plan = NoPlan
  /\ plan_result = "none"

NextPlan == PlanSelect \/ AllocFees \/ AllocLoop \/ AllocDust \/ PlanAssemble

\* ------------------------------------------------------------------------
\* Specifications: one per function, and all of them together
\* ------------------------------------------------------------------------
Others == IdlePortfolio /\ IdlePlan /\ IdleVal /\ IdleEntry

InitAlloc == build = "any" /\ ArgsAlloc /\ IdleRank /\ IdleThr /\ IdleRisk /\ Others
InitRank  == build = "any" /\ IdleAlloc /\ ArgsRank /\ IdleThr /\ IdleRisk /\ Others
InitThr   == build = "any" /\ IdleAlloc /\ IdleRank /\ ArgsThr /\ IdleRisk /\ Others
InitRisk  == build = "any" /\ IdleAlloc /\ IdleRank /\ IdleThr /\ ArgsRisk /\ Others
InitPlan  == build = "any" /\ IdleAlloc /\ IdleRank /\ IdleThr /\ IdleRisk /\ ArgsPlan
               /\ IdleVal /\ IdleEntry
InitVal   == build = "any" /\ IdleAlloc /\ IdleRank /\ IdleThr /\ IdleRisk
               /\ IdlePortfolio /\ IdlePlan /\ ArgsVal /\ IdleEntry
InitEntry == build = "any" /\ IdleAlloc /\ IdleRank /\ IdleThr /\ IdleRisk
               /\ IdlePlan /\ IdleVal /\ ArgsEntry

SpecAlloc == InitAlloc /\ [][NextAlloc]_vars
SpecRank  == InitRank /\ [][NextRank]_vars
SpecThr   == InitThr /\ [][NextThr]_vars
SpecRisk  == InitRisk /\ [][NextRisk]_vars
SpecPlan  == InitPlan /\ [][NextPlan]_vars
SpecVal   == InitVal /\ [][NextVal]_vars
SpecEntry == InitEntry /\ [][NextEntry]_vars

Init == InitAlloc \/ InitRank \/ InitThr \/ InitRisk \/ InitPlan \/ InitVal
          \/ InitEntry
Next == NextAlloc \/ NextRank \/ NextThr \/ NextRisk \/ PlanSelect \/ PlanAssemble
          \/ NextVal \/ NextEntry
Spec == Init /\ [][Next]_vars

\* ------------------------------------------------------------------------
\* Claims about the risk adjustment
\* ------------------------------------------------------------------------
\* C11: for a risk tolerance of 0..10000 bps and volatility scores v1 <= v2,
\* calculate_risk_adjustment(v1) is at least calculate_risk_adjustment(v2),
\* and neither result exceeds 15000.
C11_MonotoneInVolatility ==
  (/\ risk_pc = "done"
   /\ risk_config.risk_tolerance_bps \in 0..10000
   /\ risk_volatility[1] <= risk_volatility[2]) =>
    /\ risk_adjustments[1] >= risk_adjustments[2]
    /\ risk_adjustments[1] <= 15000
    /\ risk_adjustments[2] <= 15000

\* C11 witness: two calls where the higher volatility got the strictly lower
\* multiplier.
C11_Witness ==
  /\ risk_pc = "done"
  /\ risk_config.risk_tolerance_bps \in 1..10000
  /\ risk_volatility[1] < risk_volatility[2]
  /\ risk_adjustments[1] > risk_adjustments[2]
  /\ risk_adjustments[2] > 0

\* C12: under RiskLimits::default() calculate_risk_adjustment returns a
\* multiplier of at least 5000 and at most 15000 for every volatility score.
C12_DefaultRange ==
  (risk_pc = "done" /\ risk_config = RiskLimits_default) =>
    \A k \in 1..2 : risk_adjustments[k] >= 5000 /\ risk_adjustments[k] <= 15000

\* ------------------------------------------------------------------------
\* Claims about execute_complete_rebalancing
\* ------------------------------------------------------------------------
PlanReturned == plan_pc = "done"

\* the positions of a set, in input order
InOrder(S) ==
  [k \in 1..Cardinality(S) |->
     CHOOSE i \in S : Cardinality({j \in S : j < i}) = k - 1]

\* calculate_dynamic_threshold(base_threshold, floor(mean volatility))
C15_Threshold ==
  threshold_value(portfolio.base_threshold,
                  Wide(SumVolatility(plan_strategies) \div Len(plan_strategies))).v

C15_Under ==
  { i \in 1..Len(plan_strategies) :
      plan_strategies[i].percentile_rank < C15_Threshold }

C15_Top ==
  { i \in 1..Len(plan_strategies) : plan_strategies[i].percentile_rank >= 75 }

C15_FirstFive == { i \in C15_Top : Cardinality({j \in C15_Top : j < i}) < 5 }

\* C15: in a returned plan the extraction targets are the identifiers, in
\* input order, of the strategies whose percentile_rank is below the dynamic
\* threshold of the portfolio's base threshold and the floor of the mean
\* volatility, and the candidates given to the allocator are the first 5
\* strategies, in input order, with a percentile_rank of at least 75.
C15_Selection ==
  PlanReturned =>
    /\ plan.extraction_targets =
         [k \in 1..Cardinality(C15_Under) |->
            plan_strategies[InOrder(C15_Under)[k]].strategy_id]
    /\ top_strategies =
         [k \in 1..Cardinality(C15_FirstFive) |->
            plan_strategies[InOrder(C15_FirstFive)[k]]]

\* C15 witness: a returned plan for an input with more than 5 strategies at
\* percentile 75 or above, whose extraction target comes after one of them.
C15_Witness ==
  /\ PlanReturned
  /\ Cardinality(C15_Top) > 5
  /\ Len(top_strategies) = 5
  /\ \E k \in 1..Len(plan.extraction_targets) : plan.extraction_targets[k] > 1

PlanFinished == plan_pc \in {"done", "err", "panic"}

PlanFailsWith(code) ==
  plan_pc = "err" /\ plan_result = code /\ plan = NoPlan

\* the sum over a set of positions of max(0, current_balance - 10_000_000),
\* in unbounded arithmetic
RECURSIVE C16_Sum(_)
C16_Sum(S) ==
  IF S = {} THEN Zero
  ELSE LET i       == CHOOSE i \in S : TRUE
           balance == plan_strategies[i].current_balance
       IN  Add(IF Lt(balance, Wide(10000000)) THEN Zero
               ELSE Sub(balance, Wide(10000000)),
               C16_Sum(S \ {i}))

C16_Total == C16_Sum(C15_Under)

C16_NoCandidates ==
  plan_strategies = <<>> \/ C15_Under = {} \/ C15_Top = {}

\* C16 as stated: execute_complete_rebalancing returns no plan and fails with
\* InsufficientStrategies when the strategy list is empty, when no strategy
\* is below the dynamic threshold or when none is at percentile 75 or above,
\* and it fails with InsufficientBalance whenever the extractable total is at
\* most 100,000,000.
C16_FailuresAsStated ==
  PlanFinished =>
    /\ C16_NoCandidates => PlanFailsWith("InsufficientStrategies")
    /\ Le(C16_Total, Wide(100000000)) => PlanFailsWith("InsufficientBalance")

\* C16 amended: for a portfolio whose base_threshold is at most 100,
\* execute_complete_rebalancing returns no plan and fails with
\* InsufficientStrategies when the strategy list is empty, when no strategy
\* is below the dynamic threshold or when none is at percentile 75 or above;
\* when both sets are non-empty it fails with InsufficientBalance whenever
\* the extractable total is at most 100,000,000.
C16_Failures ==
  (PlanFinished /\ portfolio.base_threshold <= 100) =>
    /\ C16_NoCandidates => PlanFailsWith("InsufficientStrategies")
    /\ (~C16_NoCandidates /\ Le(C16_Total, Wide(100000000)))
         => PlanFailsWith("InsufficientBalance")

\* C16 witness: a call that failed with InsufficientBalance on an extractable
\* total of exactly 100,000,000.
C16_Witness ==
  /\ PlanFailsWith("InsufficientBalance")
  /\ portfolio.base_threshold <= 100
  /\ ~C16_NoCandidates
  /\ C16_Total = Wide(100000000)

\* C17: in every returned plan total_to_extract is the sum over the
\* extraction targets of max(0, current_balance - 10,000,000) and
\* estimated_fees is floor(total_to_extract * 200 / 10000), both in unbounded
\* arithmetic.
C17_PlanTotals ==
  PlanReturned =>
    /\ plan.total_to_extract = C16_Total
    /\ plan.estimated_fees = Div(Mul(C16_Total, 200), 10000)

\* the position of the strategy at percentile 15 in the input of claim C18,
\* 0 when the input is not of that shape
C18_Low ==
  IF /\ portfolio.base_threshold = 15
     /\ Len(plan_strategies) = 2
     /\ \A k \in 1..2 : /\ plan_strategies[k].volatility_score <= 10000
                         /\ plan_strategies[k].performance_score # Zero
     /\ \E j \in 1..2 : /\ plan_strategies[j].percentile_rank = 15
                         /\ plan_strategies[j].current_balance = Mul(Billion, 2)
                         /\ plan_strategies[3 - j].percentile_rank = 95
  THEN CHOOSE j \in 1..2 : plan_strategies[j].percentile_rank = 15
  ELSE 0

\* C18: for a portfolio with base_threshold 15 and two strategies, one at
\* percentile 95 and one at percentile 15 with a balance of 2,000,000,000,
\* with volatility scores of 0..10000 and positive performance scores,
\* execute_complete_rebalancing succeeds; the plan has the percentile-15
\* strategy as its only extraction target, a positive total_to_extract, a
\* non-empty redistribution list and estimated_fees of
\* total_to_extract * 200 / 10000.
C18_EndToEnd ==
  (PlanFinished /\ C18_Low # 0) =>
    /\ PlanReturned
    /\ plan.extraction_targets = <<plan_strategies[C18_Low].strategy_id>>
    /\ plan.total_to_extract # Zero
    /\ plan.redistribution_plan # <<>>
    /\ plan.estimated_fees = Div(Mul(plan.total_to_extract, 200), 10000)

\* ------------------------------------------------------------------------
\* Claims about the instruction handlers
\* ------------------------------------------------------------------------
C20_Invoked == entry_calls' # entry_calls

\* C20: while emergency_pause is set, every invocation of
\* execute_ranking_cycle and of redistribute_capital fails with
\* EmergencyPaused and leaves last_rebalance and total_capital_moved as they
\* were, whatever the clock value and the allocation list.
C20_PauseHalts ==
  [][(portfolio.emergency_pause /\ C20_Invoked) =>
       /\ entry_result' = "EmergencyPaused"
       /\ portfolio'.last_rebalance = portfolio.last_rebalance
       /\ portfolio'.total_capital_moved = portfolio.total_capital_moved]_vars

\* C20 witness: a paused portfolio on which both handlers were invoked, the
\* redistribution last, with a last_rebalance the clock values all follow.
C20_Witness ==
  /\ portfolio.emergency_pause
  /\ entry_calls >= 2
  /\ entry_point = "redistribute_capital"
  /\ entry_result = "EmergencyPaused"
  /\ portfolio.last_rebalance = I64(0)
  /\ portfolio.total_strategies >= 2

C21_Ranking ==
  /\ C20_Invoked
  /\ entry_point' = "execute_ranking_cycle"
  /\ Le(clock, clock')

\* last_rebalance + min_rebalance_interval <= t, the sum taken in unbounded
\* arithmetic
C21_Elapsed(p, t) ==
  Le(Add(p.last_rebalance, p.min_rebalance_interval), Add(t, I64_BIAS))

\* C21: with non-decreasing clock values, a call of execute_ranking_cycle
\* succeeds only if the portfolio is not paused, current_time >=
\* last_rebalance + min_rebalance_interval and total_strategies >= 2; a
\* successful call sets last_rebalance to current_time and a failing call
\* leaves it unchanged, so two successful cycles are at least
\* min_rebalance_interval apart.
C21_RankingGate ==
  [][C21_Ranking =>
       IF entry_result' = "Ok"
       THEN /\ ~portfolio.emergency_pause
            /\ C21_Elapsed(portfolio, clock')
            /\ portfolio.total_strategies >= 2
            /\ portfolio'.last_rebalance = clock'
       ELSE portfolio'.last_rebalance = portfolio.last_rebalance]_vars

C22_Redistribution ==
  /\ C20_Invoked
  /\ entry_point' = "redistribute_capital"

\* the list has no repeated identifier and every amount is positive and below
\* u64::MAX / 1000
C22_Valid(list) ==
  /\ \A i, j \in 1..Len(list) : list[i].strategy_id = list[j].strategy_id => i = j
  /\ \A i \in 1..Len(list) :
       Lt(Zero, list[i].amount) /\ Lt(list[i].amount, Div(U64_MAX, 1000))

\* the call succeeded: what the claim states of a success
C22_Success ==
  /\ ~portfolio.emergency_pause
  /\ Len(entry_allocations') \in 1..20
  /\ C22_Valid(entry_allocations')
  /\ portfolio'.total_capital_moved =
       Add(portfolio.total_capital_moved,
           SumFirst(entry_allocations', Len(entry_allocations')))
  /\ Le(portfolio'.total_capital_moved, U64_MAX)

C22_Step ==
  /\ Le(portfolio.total_capital_moved, portfolio'.total_capital_moved)
  /\ C22_Redistribution =>
       IF entry_result' = "Ok"
       THEN C22_Success
       ELSE portfolio'.total_capital_moved = portfolio.total_capital_moved

C19_Duplicate(i) ==
  \E j \in 1..(i - 1) :
    val_allocations[j].strategy_id = val_allocations[i].strategy_id

C19_TooLarge(i) ==
  \/ Le(Div(U64_MAX, 1000), val_allocations[i].amount)
  \/ Lt(U64_MAX, SumAmounts(SubSeq(val_allocations, 1, i)))

C19_Rejected ==
  { i \in 1..Len(val_allocations) :
      C19_Duplicate(i) \/ val_allocations[i].amount = Zero \/ C19_TooLarge(i) }

C19_First == CHOOSE i \in C19_Rejected : \A j \in C19_Rejected : i <= j

Ranked == rank_pc = "done"

NStrategies == Len(strategies)

\* C5: after ranking N >= 2 strategies the strategy at sorted index i has
\* percentile_rank floor((N-1-i) * 100 / (N-1)); the percentile ranks never
\* rise along the sorted order, the first is 100 and the last is 0.
C5_PercentileBySortedIndex ==
  (Ranked /\ NStrategies >= 2) =>
    /\ \A i \in 1..NStrategies :
         strategies[i].percentile_rank
           = ((NStrategies - i) * 100) \div (NStrategies - 1)
    /\ \A i \in 1..(NStrategies - 1) :
         strategies[i].percentile_rank >= strategies[i + 1].percentile_rank
    /\ strategies[1].percentile_rank = 100
    /\ strategies[NStrategies].percentile_rank = 0

\* C5 witness: a ranked cohort whose percentiles take a value strictly between
\* the two ends.
C5_Witness ==
  /\ Ranked /\ NStrategies >= 3
  /\ strategies[2].percentile_rank \in 1..99

\* C6: for 2 <= N <= 4 strategies the ranking returns exactly one
\* underperformer, the identifier of the last strategy of the sorted order.
C6_SmallPortfolioFlagsWorst ==
  (Ranked /\ NStrategies >= 2 /\ NStrategies <= 4) =>
    underperformers = <<strategies[NStrategies].strategy_id>>

C7_Uniform ==
  /\ strategies[1].rebalance_threshold \in 1..100
  /\ \A i \in 1..NStrategies :
       strategies[i].rebalance_threshold = strategies[1].rebalance_threshold

C7_K == Max(1, (NStrategies * strategies[1].rebalance_threshold) \div 100)

\* C7: for N >= 5 strategies that all carry one threshold t in 1..100 the
\* ranking returns the identifiers of the last k = max(1, floor(N*t/100))
\* strategies of the sorted order, in that order, and nothing else.
C7_BottomK ==
  (Ranked /\ NStrategies >= 5 /\ C7_Uniform) =>
    underperformers =
      [j \in 1..C7_K |-> strategies[NStrategies - C7_K + j].strategy_id]

\* C7 witness: a ranked cohort of at least 5 strategies with one threshold
\* whose cut takes several but not all strategies.
C7_Witness ==
  /\ Ranked /\ NStrategies >= 5 /\ C7_Uniform
  /\ C7_K > 1 /\ C7_K < NStrategies
  /\ Len(underperformers) = C7_K

\* C8: ranking a single strategy succeeds, gives it percentile_rank 50 and
\* returns no underperformer, whatever its fields.
C8_SingleStrategy ==
  (rank_pc # "call" /\ NStrategies = 1) =>
    /\ Ranked
    /\ strategies[1].percentile_rank = 50
    /\ underperformers = <<>>

\* C8 witness: a single strategy has been ranked.
C8_Witness ==
  Ranked /\ NStrategies = 1 /\ strategies[1].percentile_rank = 50

C9_Order(i, j) ==
  strategies[i].performance_score = strategies[j].performance_score =>
    /\ strategies[i].current_balance > strategies[j].current_balance => i < j
    /\ (/\ strategies[i].current_balance = strategies[j].current_balance
        /\ strategies[i].volatility_score < strategies[j].volatility_score)
         => i < j

C9_HigherBalance(i, j) ==
  /\ strategies[i].performance_score = strategies[j].performance_score
  /\ strategies[i].current_balance > strategies[j].current_balance

\* C9 as stated: after ranking any set of strategies, two strategies of equal
\* score are ordered by descending balance, then ascending volatility, and the
\* one with the higher balance has the strictly higher percentile_rank.
C9_TieBreakStrict ==
  Ranked =>
    \A i, j \in 1..NStrategies :
      /\ C9_Order(i, j)
      /\ C9_HigherBalance(i, j) =>
           strategies[i].percentile_rank > strategies[j].percentile_rank

\* C9 amended: two strategies of equal score are ordered by descending
\* balance, then ascending volatility; the percentile_rank of the one with the
\* higher balance is not lower, and it is strictly higher when at most 101
\* strategies are ranked.
C9_TieBreak ==
  Ranked =>
    \A i, j \in 1..NStrategies :
      /\ C9_Order(i, j)
      /\ C9_HigherBalance(i, j) =>
           /\ strategies[i].percentile_rank >= strategies[j].percentile_rank
           /\ NStrategies <= 101 =>
                strategies[i].percentile_rank > strategies[j].percentile_rank

\* C9 witness: a ranked cohort with a pair tied on the score and split by the
\* balance, and a pair tied on score and balance and split by the volatility.
C9_Witness ==
  /\ Ranked
  /\ \E i, j \in 1..NStrategies :
       /\ i < j /\ C9_HigherBalance(i, j)
       /\ strategies[i].percentile_rank > strategies[j].percentile_rank
  /\ \E i, j \in 1..NStrategies :
       /\ i < j
       /\ strategies[i].performance_score = strategies[j].performance_score
       /\ strategies[i].current_balance = strategies[j].current_balance
       /\ strategies[i].volatility_score < strategies[j].volatility_score

\* the (performance_score, current_balance, volatility_score) triples of the
\* sequence are pairwise distinct
C26_Distinct(v) ==
  \A i, j \in 1..Len(v) :
    (/\ v[i].performance_score = v[j].performance_score
     /\ v[i].current_balance = v[j].current_balance
     /\ v[i].volatility_score = v[j].volatility_score) => i = j

\* rearrangements of 1..n: all of them for a small n, the reversal and the
\* rotation by one position otherwise
C26_Shuffles(n) ==
  IF n <= MaxStrategies THEN Permutations(1..n)
  ELSE { [i \in 1..n |-> n + 1 - i], [i \in 1..n |-> (i % n) + 1] }

C26_Unranked(v) == { [v[i] EXCEPT !.percentile_rank = 0] : i \in 1..Len(v) }

\* a call of calculate_percentile_rankings returns
C26_Ranked ==
  /\ rank_pc = "call"
  /\ rank_pc' = "done"

C26_Step ==
  C26_Ranked =>
    /\ Len(strategies') = Len(strategies)
    /\ C26_Unranked(strategies') = C26_Unranked(strategies)
    /\ \E again \in { sort_by(strategies') } :
         assign_ranks(again, Len(again) - 1) = strategies'
    /\ C26_Distinct(strategies) =>
         \A p \in C26_Shuffles(Len(strategies)) :
           \E sorted \in { sort_by([i \in 1..Len(strategies) |-> strategies[p[i]]]) } :
             /\ assign_ranks(sorted, Len(sorted) - 1) = strategies'
             /\ collect_pushed(sorted, 1) = underperformers'

\* C26: for strategies with pairwise distinct (score, balance, volatility)
\* triples, calculate_percentile_rankings yields the same sorted sequence,
\* percentile ranks and underperformer list for every permutation of the
\* input; ranking a ranked sequence again changes neither order nor
\* percentile ranks; the output is a permutation of the input.
C26_OrderIndependent == [][C26_Step]_vars

\* C26 witness: a returned ranking of at least four strategies with distinct
\* triples whose input order was not the sorted order.
C26_Witness ==
  /\ rank_pc = "done"
  /\ Len(strategies) >= 4
  /\ C26_Distinct(strategies)
  /\ strategies[1].strategy_id # 1
  /\ strategies[Len(strategies)].strategy_id # Len(strategies)

\* ------------------------------------------------------------------------
\* Claims about the dynamic threshold
\* ------------------------------------------------------------------------
C10_Expected ==
  clamp(base_threshold + (Narrow(average_volatility) * 20) \div 10000, 10, 40)

C10_Case(base, volatility, threshold) ==
  (base_threshold = base /\ average_volatility = Wide(volatility)) =>
    (thr_result = "Ok" /\ dynamic_threshold = threshold)

\* C10: calculate_dynamic_threshold fails with InvalidRebalanceThreshold for
\* every base above 100; for a base of at most 100 and a volatility of at most
\* 65535 it returns clamp(base + floor(volatility * 20 / 10000), 10, 40), a
\* value in 10..40: 21 for (15, 3000), 16 for (15, 500), 35 for (15, 10000),
\* 40 for (15, 15000) and 10 for (5, 100).
C10_DynamicThreshold ==
  thr_pc \in {"done", "err"} =>
    /\ base_threshold > 100 => thr_result = "InvalidRebalanceThreshold"
    /\ (base_threshold <= 100 /\ Le(average_volatility, Wide(65535))) =>
         /\ thr_result = "Ok"
         /\ dynamic_threshold = C10_Expected
         /\ dynamic_threshold \in 10..40
    /\ C10_Case(15, 3000, 21)
    /\ C10_Case(15, 500, 16)
    /\ C10_Case(15, 10000, 35)
    /\ C10_Case(15, 15000, 40)
    /\ C10_Case(5, 100, 10)

\* base + floor(average_volatility * 20 / 10000) in unbounded arithmetic
C25_Raw == Add(Wide(base_threshold), Div(Mul(average_volatility, 20), 10000))

C25_Clamped ==
  IF Lt(C25_Raw, Wide(10)) THEN 10
  ELSE IF Lt(Wide(40), C25_Raw) THEN 40
  ELSE Narrow(C25_Raw)

\* C25: for a base of at most 100 and any 32-bit average_volatility,
\* calculate_dynamic_threshold returns clamp(base + floor(average_volatility *
\* 20 / 10000), 10, 40) of the unbounded sum or fails with BalanceOverflow: it
\* never wraps or truncates silently.
C25_NoSilentTruncation ==
  (thr_pc \in {"done", "err"} /\ base_threshold <= 100) =>
    \/ thr_result = "BalanceOverflow"
    \/ thr_result = "Ok" /\ dynamic_threshold = C25_Clamped

\* C10 witness: the call for (5, 100) has returned the lower clamp.
C10_Witness ==
  /\ thr_pc = "done" /\ base_threshold = 5 /\ average_volatility = Wide(100)
  /\ dynamic_threshold = 10

\* sum of the PlatformFee and ManagerIncentive amounts of the first n entries
RECURSIVE C28_Fees(_, _)
C28_Fees(list, n) ==
  IF n = 0 THEN Zero
  ELSE Add(C28_Fees(list, n - 1),
           IF list[n].allocation_type \in {"PlatformFee", "ManagerIncentive"}
           THEN list[n].amount ELSE Zero)

C28_FeeEntries ==
  C28_Fees(plan.redistribution_plan, Len(plan.redistribution_plan))

\* C28: in every plan returned by execute_complete_rebalancing,
\* estimated_fees is at least the sum of the PlatformFee and ManagerIncentive
\* entries of redistribution_plan and exceeds it by at most 1.
C28_EstimatedFees ==
  plan_pc = "done" =>
    /\ Le(C28_FeeEntries, plan.estimated_fees)
    /\ Le(plan.estimated_fees, Add(C28_FeeEntries, Wide(1)))

====
